---- MODULE Spec2Model ----
(***************************************************************************)
(* The label tokenizer createLabel (a fork of micromark's factory-label):  *)
(* a state machine fed one input unit at a time by the driver.  Each       *)
(* action below is one state function receiving the next unit; the state   *)
(* functions it calls on the same unit (atBreak, label, atClosingBrace,    *)
(* nok) are part of the same step.                                         *)
(***************************************************************************)
EXTENDS Integers, Sequences, FiniteSets, TLC

\* ---------------------------------------------------------------- bounds
MaxLen == 7          \* longest enumerated input
MaxPad == 1          \* longest run of ordinary units before the escapes

\* ------------------------------------------------------- program constants
SizeCeiling == 999   \* size > 999
MaxBalance == 3      \* ++balance > 3

\* ------------------------------------------------------------ input units
openingSquareBracket == "["
closingSquareBracket == "]"
backSlash == "\\"
EOF == "eof"
LF == "lf"
Letter == "a"

Units == {openingSquareBracket, closingSquareBracket, backSlash, EOF, LF, Letter}

\* misses the line feed
markdownLineEndingCrOnly(code) == code \in {"cr", "crlf"}

markdownLineEnding(code) == code \in {"cr", LF, "crlf"}

\* the caller-supplied span tags and the two fixed ones
type == "label"
markerType == "labelMarker"
stringType == "labelString"
lineEndingType == "lineEnding"
chunkTextType == "chunkText"

VARIABLES input, disallowEol, pos, state, size, balance, events, calls, nokArgs

vars == <<input, disallowEol, pos, state, size, balance, events, calls, nokArgs>>

\* ------------------------------------------------- the emission interface
\* what one state function and the functions it calls work on
Ctx == [size |-> size, balance |-> balance, events |-> events,
        calls |-> <<>>, nokArgs |-> nokArgs, next |-> state]

enter(c, t) == [c EXCEPT !.events = Append(@, [op |-> "enter", type |-> t, idx |-> 0])]

exit(c, t) == [c EXCEPT !.events = Append(@, [op |-> "exit", type |-> t, idx |-> 0])]

consume(c, i) == [c EXCEPT !.events = Append(@, [op |-> "consume", type |-> "", idx |-> i])]

called(c, fn) == [c EXCEPT !.calls = Append(@, fn)]

\* consumes the failing unit before delegating
nokAfterConsume(c, i) == [consume(c, i) EXCEPT !.nokArgs = Append(@, i), !.next = "nok"]

\* the two continuations: nok is called with the current unit, ok is returned
nok(c, i) == [c EXCEPT !.nokArgs = Append(@, i), !.next = "nok"]

ok(c) == [c EXCEPT !.next = "ok"]

\* ----------------------------------------------------- the state functions
RECURSIVE atBreak(_, _), label(_, _)

\* code === Codes.closingSquareBracket && !balance--
ClosesLabel(c, code) == code = closingSquareBracket /\ c.balance = 0

AfterClosingTest(c, code) ==
  IF code = closingSquareBracket THEN [c EXCEPT !.balance = @ - 1] ELSE c

\* lets a fourth nested group in
TooDeepLate(c, code) == code = openingSquareBracket /\ c.balance + 1 > MaxBalance + 1

\* rejects the third nested group already
TooDeepOffByOne(c, code) == code = openingSquareBracket /\ c.balance + 1 >= MaxBalance

\* code === Codes.openingSquareBracket && ++balance > 3
TooDeep(c, code) == code = openingSquareBracket /\ c.balance + 1 > MaxBalance

AfterOpeningTest(c, code) ==
  IF code = openingSquareBracket THEN [c EXCEPT !.balance = @ + 1] ELSE c

\* compares with 1000 where 999 is meant
OverSizeLate(c) == c.size > SizeCeiling + 1

OverSize(c) == c.size > SizeCeiling

\* closes the content-string span after the closing marker
atClosingBraceLateExit(c0, i) ==
  LET c2 == enter(called(c0, "atClosingBrace"), markerType)
      c3 == consume(c2, i)
      c4 == exit(c3, markerType)
      c5 == exit(exit(c4, stringType), type)
  IN  ok(c5)

\* forgets to close the content-string span
atClosingBraceKeepsString(c0, i) ==
  LET c2 == enter(called(c0, "atClosingBrace"), markerType)
      c3 == consume(c2, i)
      c4 == exit(c3, markerType)
      c5 == exit(c4, type)
  IN  ok(c5)

atClosingBrace(c0, i) ==
  LET c1 == exit(called(c0, "atClosingBrace"), stringType)
      c2 == enter(c1, markerType)
      c3 == consume(c2, i)
      c4 == exit(c3, markerType)
      c5 == exit(c4, type)
  IN  ok(c5)

start(c0, i) ==
  LET code == input[i]
      c == called(c0, "start")
  IN  IF code # openingSquareBracket
        THEN [c EXCEPT !.next = "thrown"]
        ELSE [exit(consume(enter(enter(c, type), markerType), i), markerType)
                EXCEPT !.next = "afterStart"]

\* has no empty label: the content-string span is entered at once
afterStartNoEmpty(c0, i) == atBreak(enter(called(c0, "afterStart"), stringType), i)

\* closes the label span before handing over to atBreak
afterStartClosesLabel(c0, i) ==
  LET code == input[i]
      c == called(c0, "afterStart")
  IN  IF code = closingSquareBracket
        THEN ok(exit(exit(consume(enter(c, markerType), i), markerType), type))
        ELSE atBreak(enter(exit(c, type), stringType), i)

afterStart(c0, i) ==
  LET code == input[i]
      c == called(c0, "afterStart")
  IN  IF code = closingSquareBracket
        THEN ok(exit(exit(consume(enter(c, markerType), i), markerType), type))
        ELSE atBreak(enter(c, stringType), i)

\* fails on a line ending whatever disallowEol says
atBreakRejectsEol(c0, i) ==
  LET code == input[i]
      c == called(c0, "atBreak")
  IN  IF code = EOF \/ OverSize(c)
        THEN nok(c, i)
        ELSE IF ClosesLabel(c, code)
          THEN atClosingBrace(AfterClosingTest(c, code), i)
          ELSE LET c1 == AfterClosingTest(c, code)
               IN  IF markdownLineEnding(code)
                     THEN nok(c1, i)
                     ELSE label(enter(c1, chunkTextType), i)

atBreak(c0, i) ==
  LET code == input[i]
      c == called(c0, "atBreak")
  IN  IF code = EOF \/ OverSize(c)
        THEN nok(c, i)
        ELSE IF ClosesLabel(c, code)
          THEN atClosingBrace(AfterClosingTest(c, code), i)
          ELSE LET c1 == AfterClosingTest(c, code)
               IN  IF markdownLineEnding(code)
                     THEN IF disallowEol
                            THEN nok(c1, i)
                            ELSE [exit(consume(enter(c1, lineEndingType), i), lineEndingType)
                                    EXCEPT !.next = "atBreak"]
                     ELSE label(enter(c1, chunkTextType), i)

\* does not stop the chunk at end-of-input
labelConsumesEof(c0, i) ==
  LET code == input[i]
      c == called(c0, "label")
  IN  IF markdownLineEnding(code) \/ OverSize(c)
        THEN atBreak(exit(c, chunkTextType), i)
        ELSE IF TooDeep(c, code)
          THEN nok(AfterOpeningTest(c, code), i)
          ELSE LET c1 == AfterOpeningTest(c, code)
               IN  IF ClosesLabel(c1, code)
                     THEN atClosingBrace(exit(AfterClosingTest(c1, code), chunkTextType), i)
                     ELSE [consume(AfterClosingTest(c1, code), i)
                             EXCEPT !.next = IF code = backSlash THEN "labelEscape" ELSE "label"]

label(c0, i) ==
  LET code == input[i]
      c == called(c0, "label")
  IN  IF code = EOF \/ markdownLineEnding(code) \/ OverSize(c)
        THEN atBreak(exit(c, chunkTextType), i)
        ELSE IF TooDeep(c, code)
          THEN nok(AfterOpeningTest(c, code), i)
          ELSE LET c1 == AfterOpeningTest(c, code)
               IN  IF ClosesLabel(c1, code)
                     THEN atClosingBrace(exit(AfterClosingTest(c1, code), chunkTextType), i)
                     ELSE [consume(AfterClosingTest(c1, code), i)
                             EXCEPT !.next = IF code = backSlash THEN "labelEscape" ELSE "label"]

\* does not know escapes: every follower is re-evaluated in label
labelEscapeIgnored(c0, i) == label(called(c0, "labelEscape"), i)

\* forgets to count the escaped unit
labelEscapeNoCount(c0, i) ==
  LET code == input[i]
      c == called(c0, "labelEscape")
  IN  IF code \in {openingSquareBracket, backSlash, closingSquareBracket}
        THEN [consume(c, i) EXCEPT !.next = "label"]
        ELSE label(c, i)

\* counts the follower that is not escapable as well
labelEscapeCountsAll(c0, i) ==
  LET code == input[i]
      c == called(c0, "labelEscape")
  IN  IF code \in {openingSquareBracket, backSlash, closingSquareBracket}
        THEN [consume(c, i) EXCEPT !.size = @ + 1, !.next = "label"]
        ELSE label([c EXCEPT !.size = @ + 1], i)

\* consumes the follower of a backslash before re-evaluating it in label
labelEscapeConsumesTwice(c0, i) ==
  LET code == input[i]
      c == called(c0, "labelEscape")
  IN  IF code \in {openingSquareBracket, backSlash, closingSquareBracket}
        THEN [consume(c, i) EXCEPT !.size = @ + 1, !.next = "label"]
        ELSE label(consume(c, i), i)

\* takes any follower of a backslash as escaped
labelEscapeAny(c0, i) ==
  [consume(called(c0, "labelEscape"), i) EXCEPT !.size = @ + 1, !.next = "label"]

labelEscape(c0, i) ==
  LET code == input[i]
      c == called(c0, "labelEscape")
  IN  IF code \in {openingSquareBracket, backSlash, closingSquareBracket}
        THEN [consume(c, i) EXCEPT !.size = @ + 1, !.next = "label"]
        ELSE label(c, i)

\* ------------------------------------------------------------- the driver
\* the driver hands the next unit to the current state function and keeps
\* what it returns as the next state
Feed(c) ==
  /\ size' = c.size
  /\ balance' = c.balance
  /\ events' = c.events
  /\ calls' = c.calls
  /\ nokArgs' = c.nokArgs
  /\ state' = c.next
  /\ pos' = pos + 1
  /\ UNCHANGED <<input, disallowEol>>

HasUnit == pos <= Len(input)

Start == state = "start" /\ HasUnit /\ Feed(start(Ctx, pos))

AfterStart == state = "afterStart" /\ HasUnit /\ Feed(afterStart(Ctx, pos))

AtBreak == state = "atBreak" /\ HasUnit /\ Feed(atBreak(Ctx, pos))

Label == state = "label" /\ HasUnit /\ Feed(label(Ctx, pos))

LabelEscape == state = "labelEscape" /\ HasUnit /\ Feed(labelEscape(Ctx, pos))

Next == Start \/ AfterStart \/ AtBreak \/ Label \/ LabelEscape

\* ----------------------------------------------------------------- inputs
SeqsOfLen(S, n) == [1..n -> S]

\* a unit sequence: end-of-input, if present, is its last unit
Body(n) == SeqsOfLen(Units \ {EOF}, n)

\* the caller has peeked an opening bracket; any other first unit makes
\* start throw, whatever follows
Bracketed ==
  UNION {{<<openingSquareBracket>> \o b \o t : b \in Body(n), t \in {<<>>, <<EOF>>}}
           : n \in 0..(MaxLen - 2)}

Unbracketed == {<<u>> : u \in Units \ {openingSquareBracket}}

Inputs == Bracketed \cup Unbracketed

Nested5 == <<"[", "a", "[", "b", "[", "c", "[", "d", "[", "e", "]", "]", "]", "]", "]", EOF>>
Nested4 == <<"[", "a", "[", "b", "[", "c", "[", "d", "]", "]", "]", "]", EOF>>
Nested3 == <<"[", "a", "[", "b", "[", "c", "]", "]", "]", EOF>>

Examples == {Nested5, Nested4, Nested3}

InitWith(in) ==
  /\ input = in
  /\ disallowEol \in BOOLEAN
  /\ pos = 1
  /\ state = "start"
  /\ size = 0
  /\ balance = 0
  /\ events = <<>>
  /\ calls = <<>>
  /\ nokArgs = <<>>

Init == \E in \in Inputs \cup Examples : InitWith(in)

Spec == Init /\ [][Next]_vars

\* inputs that reach the size ceiling: the opening bracket, up to MaxPad
\* unescaped units, n escapes (a backslash and an escapable unit each) and
\* one more unit
Escapables == <<closingSquareBracket, backSlash, openingSquareBracket>>

Escapes(n) ==
  [k \in 1..(2 * n) |-> IF k % 2 = 1 THEN backSlash ELSE Escapables[((k \div 2) % 3) + 1]]

Pads == UNION {SeqsOfLen({Letter, LF}, n) : n \in 0..MaxPad}

SizeInputs ==
  {<<openingSquareBracket>> \o p \o Escapes(n) \o <<t>> :
     p \in Pads, n \in {SizeCeiling, SizeCeiling + 1}, t \in Units}

InitSize == \E in \in SizeInputs : InitWith(in)

SpecSize == InitSize /\ [][Next]_vars

\* ------------------------------------------------ reading the event stream
Terminal == state \in {"ok", "nok"}

\* the driver has nothing more to do: a continuation has control, start has
\* thrown, or the input read so far is used up
Quiescent == ~ENABLED Next

Fed == pos - 1

RECURSIVE Nest(_, _, _)
\* the spans left open by ev[k..], from open spans st; wellNested is FALSE
\* when an exit does not close the innermost open span
Nest(ev, k, st) ==
  IF k > Len(ev) THEN [wellNested |-> TRUE, open |-> st]
  ELSE IF ev[k].op = "enter" THEN Nest(ev, k + 1, Append(st, ev[k].type))
  ELSE IF ev[k].op = "exit"
    THEN IF st # <<>> /\ st[Len(st)] = ev[k].type
           THEN Nest(ev, k + 1, SubSeq(st, 1, Len(st) - 1))
           ELSE [wellNested |-> FALSE, open |-> st]
  ELSE Nest(ev, k + 1, st)

Spans == Nest(events, 1, <<>>)

OpenSpans == Spans.open

Count(ev, o, t) == Cardinality({k \in 1..Len(ev) : ev[k].op = o /\ ev[k].type = t})

SpanTypes == {type, markerType, stringType, lineEndingType, chunkTextType}

\* the indices of the units consumed, in the order of consumption
Consumed ==
  LET cs == SelectSeq(events, LAMBDA e : e.op = "consume")
  IN  [k \in 1..Len(cs) |-> cs[k].idx]

\* the spans open when event k happened
OpenAt(k) == Nest(SubSeq(events, 1, k - 1), 1, <<>>).open

\* C1: every exit closes the innermost open span and carries its type, and
\* at ok every span entered has been exited (as many exits as enters of
\* each type, none left open).
C1_SpanWellFormed ==
  /\ Spans.wellNested
  /\ state = "ok" =>
        /\ OpenSpans = <<>>
        /\ \A t \in SpanTypes : Count(events, "enter", t) = Count(events, "exit", t)

\* a successful parse whose content has a text chunk, a line ending and a
\* second chunk
C1_Witness ==
  /\ state = "ok"
  /\ Count(events, "exit", chunkTextType) = 2
  /\ Count(events, "exit", lineEndingType) = 1

\* C2: never both continuations, nok called at most once, and when an input
\* that starts with an opening bracket and ends with end-of-input has been
\* handled as far as the tokenizer goes, exactly one continuation has been
\* reached; no unit is handled once a continuation has control.
C2_ExactlyOneContinuation ==
  /\ [](/\ Len(nokArgs) <= 1
        /\ (state = "nok") <=> (nokArgs # <<>>)
        /\ (input[1] = openingSquareBracket /\ input[Len(input)] = EOF /\ Quiescent)
              => Terminal)
  /\ [][~Terminal]_vars

\* end-of-input is what ends the scan, after an escape introducer
C2_Witness ==
  /\ state = "nok"
  /\ input[Fed] = EOF
  /\ Fed = Len(input)
  /\ calls = <<"labelEscape", "label", "atBreak">>

\* ------------------------------------------------- the grammar of a label
RECURSIVE OpenGroups(_, _, _, _)
\* the number of groups left open by content[k..], read from depth d with
\* esc telling that content[k-1] is an unescaped backslash; -1 when a
\* closing bracket has no group to close
OpenGroups(content, k, d, esc) ==
  IF k > Len(content) THEN d
  ELSE LET u == content[k] IN
    IF esc /\ u \in {openingSquareBracket, closingSquareBracket, backSlash}
      THEN OpenGroups(content, k + 1, d, FALSE)
    ELSE IF u = backSlash THEN OpenGroups(content, k + 1, d, TRUE)
    ELSE IF u = openingSquareBracket THEN OpenGroups(content, k + 1, d + 1, FALSE)
    ELSE IF u = closingSquareBracket
      THEN IF d = 0 THEN -1 ELSE OpenGroups(content, k + 1, d - 1, FALSE)
    ELSE OpenGroups(content, k + 1, d, FALSE)

Balanced(content) == OpenGroups(content, 1, 0, FALSE) = 0

\* the units between the opening bracket and the last unit fed
ContentRead == SubSeq(input, 2, Fed - 1)

\* C3: at ok the unescaped brackets of the label content are balanced.
C3_BalancedAtOk == state = "ok" => Balanced(ContentRead)

\* C4 as claimed: three groups nested in the label are rejected, two are
\* accepted.
C4_Nested4Rejected ==
  /\ (input = Nested4 /\ Quiescent) => state = "nok"
  /\ (input = Nested3 /\ Quiescent) => state = "ok"

\* C4 amended: four groups nested in the label are rejected at the fourth
\* inner opening bracket, three and two are accepted at their last bracket.
C4_Nested5Rejected ==
  /\ (input = Nested5 /\ Quiescent) => (state = "nok" /\ nokArgs = <<9>>)
  /\ (input = Nested4 /\ Quiescent) => (state = "ok" /\ Fed = 12)
  /\ (input = Nested3 /\ Quiescent) => (state = "ok" /\ Fed = 9)

C4_Witness == input = Nested5 /\ state = "nok" /\ balance = MaxBalance + 1

\* C5 as claimed: no span is open when either continuation gets control.
C5_NoOpenSpanAtTransfer == Terminal => OpenSpans = <<>>

\* C5 amended: at ok no span is open; at nok the events are a well-nested
\* prefix in which the label and content-string spans are still open, and
\* the chunkText span too exactly when nok is called by label.
C5_OpenSpansAtTransfer ==
  /\ state = "ok" => OpenSpans = <<>>
  /\ state = "nok" =>
        /\ Spans.wellNested
        /\ IF calls[Len(calls)] = "label"
             THEN OpenSpans = <<type, stringType, chunkTextType>>
             ELSE OpenSpans = <<type, stringType>>

C5_Witness ==
  /\ state = "nok"
  /\ calls = <<"label">>
  /\ input[Fed] = openingSquareBracket

NoDuplicates(sq) == \A j, k \in 1..Len(sq) : j # k => sq[j] # sq[k]

\* the hand-overs of an unconsumed unit from one state function to another
HandOvers ==
  {<<"afterStart", "atBreak">>, <<"atBreak", "label">>, <<"atBreak", "atClosingBrace">>,
   <<"label", "atBreak">>, <<"label", "atClosingBrace">>, <<"labelEscape", "label">>}

\* the units fed before a continuation got control
Handled == IF state \in {"nok", "thrown"} THEN Fed - 1 ELSE Fed

\* C6: the units handed to the tokenizer before a continuation is reached
\* are consumed once each, in order, none skipped; the last unit fed went
\* through hand-overs of the listed kinds only and no state function saw it
\* twice.
C6_ConsumedExactlyOnce ==
  /\ Consumed = [k \in 1..Handled |-> k]
  /\ NoDuplicates(calls)
  /\ \A k \in 1..(Len(calls) - 1) : <<calls[k], calls[k + 1]>> \in HandOvers

\* a non-escape follower of a backslash, handed on twice and then consumed
C6_Witness ==
  /\ calls = <<"labelEscape", "label", "atBreak">>
  /\ state = "atBreak"
  /\ Consumed[Len(Consumed)] = Fed

\* C7: at ok the last unit fed is a closing bracket, consumed in the closing
\* marker span as the last thing done, so ok receives the unit after it; at
\* nok the last unit fed is unconsumed and is the one argument nok got.
C7_ContinuationPosition ==
  /\ state = "ok" =>
        /\ input[Fed] = closingSquareBracket
        /\ SubSeq(events, Len(events) - 3, Len(events)) =
             << [op |-> "enter", type |-> markerType, idx |-> 0],
                [op |-> "consume", type |-> "", idx |-> Fed],
                [op |-> "exit", type |-> markerType, idx |-> 0],
                [op |-> "exit", type |-> type, idx |-> 0] >>
        /\ pos = Fed + 1
  /\ state = "nok" =>
        /\ nokArgs = <<Fed>>
        /\ \A k \in 1..Len(Consumed) : Consumed[k] # Fed

C7_WitnessOk == state = "ok" /\ "atClosingBrace" \in {calls[k] : k \in 1..Len(calls)}

C7_Witness ==
  /\ state = "nok"
  /\ disallowEol
  /\ input[Fed] = LF
  /\ Len(Consumed) >= 2

\* C8: with disallowEol, a line ending fed after the opening bracket goes to
\* nok unconsumed, whatever state function received it, and no lineEnding
\* span is entered.
C8_EolRejected ==
  disallowEol =>
    /\ (Fed >= 2 /\ input[Fed] = LF) => (state = "nok" /\ nokArgs = <<Fed>>)
    /\ Count(events, "enter", lineEndingType) = 0

\* the line ending directly follows a backslash
C8_Witness ==
  /\ disallowEol
  /\ state = "nok"
  /\ input[Fed] = LF
  /\ calls = <<"labelEscape", "label", "atBreak">>

RECURSIVE Terminator(_, _, _, _)
\* the index of the closing bracket that ends the label whose content starts
\* at in[k], by the grammar: at most MaxBalance groups open at once; 0 when
\* in holds no such label
Terminator(in, k, d, esc) ==
  IF k > Len(in) THEN 0
  ELSE LET u == in[k] IN
    IF esc /\ u \in {openingSquareBracket, closingSquareBracket, backSlash}
      THEN Terminator(in, k + 1, d, FALSE)
    ELSE IF u = EOF THEN 0
    ELSE IF u = backSlash THEN Terminator(in, k + 1, d, TRUE)
    ELSE IF u = openingSquareBracket
      THEN IF d + 1 > MaxBalance THEN 0 ELSE Terminator(in, k + 1, d + 1, FALSE)
    ELSE IF u = closingSquareBracket
      THEN IF d = 0 THEN k ELSE Terminator(in, k + 1, d - 1, FALSE)
    ELSE Terminator(in, k + 1, d, FALSE)

LabelEnd == IF input[1] = openingSquareBracket THEN Terminator(input, 2, 0, FALSE) ELSE 0

LastIsEol == Fed >= 2 /\ input[Fed] = LF

\* C9: without disallowEol, a line ending fed below the size ceiling leaves
\* the scan in atBreak with the line ending consumed in a lineEnding span
\* directly inside the content-string span, and an input that holds a
\* well-formed label with a line ending in it does not reach nok and has
\* reached ok once its terminating bracket is fed.
C9_EolAccepted ==
  ~disallowEol =>
    /\ (LastIsEol /\ size <= SizeCeiling) =>
          /\ state = "atBreak"
          /\ SubSeq(events, Len(events) - 2, Len(events)) =
               << [op |-> "enter", type |-> lineEndingType, idx |-> 0],
                  [op |-> "consume", type |-> "", idx |-> Fed],
                  [op |-> "exit", type |-> lineEndingType, idx |-> 0] >>
          /\ OpenAt(Len(events) - 2) = <<type, stringType>>
          /\ OpenSpans = <<type, stringType>>
    /\ (LabelEnd > 0 /\ \E k \in 2..(LabelEnd - 1) : input[k] = LF) =>
          /\ state # "nok"
          /\ Fed >= LabelEnd => state = "ok"

\* a text chunk is open when the line ending comes
C9_Witness ==
  /\ ~disallowEol
  /\ LastIsEol
  /\ state = "atBreak"
  /\ calls = <<"label", "atBreak">>

C9_WitnessOk ==
  /\ ~disallowEol
  /\ state = "ok"
  /\ Fed = LabelEnd
  /\ Count(events, "exit", lineEndingType) = 1
  /\ Count(events, "exit", chunkTextType) = 2

\* C10: once more than SizeCeiling escaped characters are consumed, the scan
\* is in label right after the escape that crossed the ceiling, or nok has
\* been reached on the very next unit - a closing bracket included; ok is
\* never reached with the ceiling crossed.
C10_SizeCeiling ==
  size > SizeCeiling =>
    \/ /\ state = "label"
       /\ calls = <<"labelEscape">>
       /\ size = SizeCeiling + 1
       /\ events[Len(events)] = [op |-> "consume", type |-> "", idx |-> Fed]
    \/ /\ state = "nok"
       /\ size = SizeCeiling + 1
       /\ nokArgs = <<Fed>>
       /\ input[Fed - 2] = backSlash

\* the bracket right after the crossing escape, after unescaped units
C10_Witness ==
  /\ size > SizeCeiling
  /\ state = "nok"
  /\ input[Fed] = closingSquareBracket
  /\ input[2] = Letter

\* ------------------------------------------------------ escapes, by input
EscapableUnits == {openingSquareBracket, closingSquareBracket, backSlash}

RECURSIVE EscapedAt(_, _)
\* in[k] is an escapable unit right after a backslash of the content that is
\* not escaped itself
EscapedAt(in, k) ==
  /\ k >= 3
  /\ k <= Len(in)
  /\ in[k] \in EscapableUnits
  /\ in[k - 1] = backSlash
  /\ ~EscapedAt(in, k - 1)

C12_EmptyLabel ==
  (Fed >= 2 /\ input[1] = openingSquareBracket /\ input[2] = closingSquareBracket) =>
    /\ state = "ok"
    /\ Fed = 2
    /\ events = << [op |-> "enter", type |-> type, idx |-> 0],
                   [op |-> "enter", type |-> markerType, idx |-> 0],
                   [op |-> "consume", type |-> "", idx |-> 1],
                   [op |-> "exit", type |-> markerType, idx |-> 0],
                   [op |-> "enter", type |-> markerType, idx |-> 0],
                   [op |-> "consume", type |-> "", idx |-> 2],
                   [op |-> "exit", type |-> markerType, idx |-> 0],
                   [op |-> "exit", type |-> type, idx |-> 0] >>
    /\ Count(events, "enter", stringType) = 0
    /\ Count(events, "enter", chunkTextType) = 0

C12_Witness ==
  /\ state = "ok"
  /\ calls = <<"afterStart">>
  /\ disallowEol
  /\ Len(input) > 2

EscapeExample == <<"[", "a", "\\", "]", "a", "]">>

LiteralBackslashExample == <<"[", "a", "\\", "a", "]">>

ConsumeOf(i) == [op |-> "consume", type |-> "", idx |-> i]

\* C13: a step that reads an opening bracket, closing bracket or backslash
\* right after an unescaped backslash only consumes it: balance unchanged,
\* size up by one, the scan back in label (so no new escape and no end of
\* the label); and `[a\]a]` ends in ok at its last bracket with size 1.
C13_EscapedUnit ==
  /\ [][EscapedAt(input, pos) =>
          /\ state = "labelEscape"
          /\ events' = Append(events, ConsumeOf(pos))
          /\ balance' = balance
          /\ size' = size + 1
          /\ state' = "label"
          /\ nokArgs' = nokArgs]_vars
  /\ []((input = EscapeExample /\ Quiescent) => (state = "ok" /\ Fed = 6 /\ size = 1))

C13_Witness ==
  /\ input = EscapeExample
  /\ state = "ok"
  /\ size = 1

\* an escaped backslash does not escape the bracket after it
C13_WitnessBackslash ==
  /\ state = "ok"
  /\ size = 1
  /\ input[Fed - 1] = backSlash
  /\ input[Fed - 2] = backSlash

\* C14: a step that reads any other unit in labelEscape leaves size alone
\* and does with the unit what label does: an ordinary unit is consumed in
\* the open chunk, end-of-input and a forbidden line ending close the chunk
\* and go to nok, an allowed line ending closes the chunk and is consumed
\* in a lineEnding span; the backslash before it stays consumed.  `[a\a]`
\* ends in ok with every unit consumed and size 0.
C14_LiteralBackslash ==
  /\ [][(state = "labelEscape" /\ input[pos] \notin EscapableUnits) =>
          /\ size' = size
          /\ balance' = balance
          /\ events[Len(events)] = ConsumeOf(pos - 1)
          /\ input[pos - 1] = backSlash
          /\ calls' = <<"labelEscape", "label">> \o (IF input[pos] = Letter THEN <<>> ELSE <<"atBreak">>)
          /\ CASE input[pos] = Letter ->
                   /\ events' = Append(events, ConsumeOf(pos))
                   /\ state' = "label"
               [] input[pos] = EOF \/ (input[pos] = LF /\ disallowEol) ->
                   /\ events' = Append(events, [op |-> "exit", type |-> chunkTextType, idx |-> 0])
                   /\ state' = "nok"
                   /\ nokArgs' = <<pos>>
               [] input[pos] = LF /\ ~disallowEol ->
                   /\ events' = events \o
                        << [op |-> "exit", type |-> chunkTextType, idx |-> 0],
                           [op |-> "enter", type |-> lineEndingType, idx |-> 0],
                           ConsumeOf(pos),
                           [op |-> "exit", type |-> lineEndingType, idx |-> 0] >>
                   /\ state' = "atBreak"]_vars
  /\ []((input = LiteralBackslashExample /\ Quiescent) =>
          (state = "ok" /\ Fed = 5 /\ size = 0 /\ Consumed = <<1, 2, 3, 4, 5>>))

C14_Witness ==
  /\ input = LiteralBackslashExample
  /\ state = "ok"
  /\ size = 0

C14_WitnessEol ==
  /\ calls = <<"labelEscape", "label", "atBreak">>
  /\ state = "atBreak"
  /\ size = 0

\* the indices k of the events that consume a unit with span t open
ConsumeEventsIn(t) ==
  {k \in 1..Len(events) :
     /\ events[k].op = "consume"
     /\ \E j \in 1..Len(OpenAt(k)) : OpenAt(k)[j] = t}

\* the units consumed with span t open, in the order of consumption
ConsumedIn(t) ==
  LET ks == ConsumeEventsIn(t)
      cs == SelectSeq([k \in 1..Len(events) |-> IF k \in ks THEN events[k].idx ELSE 0],
                      LAMBDA x : x # 0)
  IN  cs

\* the spans open when unit i was consumed
OpenAtConsume(i) ==
  LET k == CHOOSE k \in 1..Len(events) : events[k] = ConsumeOf(i)
  IN  OpenAt(k)

\* C15: at ok after a non-empty label, the units consumed inside the
\* content-string span are the units 2..Fed-1 between the two brackets, in
\* order, and each bracket is consumed in a marker span directly in the
\* label span.
C15_ContentSpan ==
  (state = "ok" /\ Fed > 2) =>
    /\ ConsumedIn(stringType) = [k \in 1..(Fed - 2) |-> k + 1]
    /\ OpenAtConsume(1) = <<type, markerType>>
    /\ OpenAtConsume(Fed) = <<type, markerType>>
    /\ Count(events, "enter", stringType) = 1
    /\ Count(events, "enter", markerType) = 2

C15_Witness ==
  /\ state = "ok"
  /\ ConsumedIn(stringType) = <<2, 3, 4>>
  /\ input[2] = Letter
  /\ input[3] = LF
  /\ input[4] = Letter

\* C16: a step of atBreak that reads a closing bracket with balance nonzero
\* takes one off balance and consumes the bracket in a new text chunk, the
\* scan going on in label.
C16_AtBreakClosesGroup ==
  [][(state = "atBreak" /\ input[pos] = closingSquareBracket /\ balance # 0) =>
       /\ balance' = balance - 1
       /\ state' = "label"
       /\ events' = events \o << [op |-> "enter", type |-> chunkTextType, idx |-> 0],
                                 ConsumeOf(pos) >>]_vars

\* C17 as claimed: balance is between 0 and MaxBalance in every state.
C17_BalanceInRange == balance \in 0..MaxBalance

\* C17 amended: balance is between 0 and MaxBalance in every state in which
\* the tokenizer still scans; at ok it is 0 after the empty label and -1
\* after any other; at nok it is MaxBalance + 1 when label hit the depth
\* limit and between 0 and MaxBalance otherwise.
C17_BalanceRange ==
  /\ ~Terminal => balance \in 0..MaxBalance
  /\ state = "ok" => balance = (IF Fed = 2 THEN 0 ELSE -1)
  /\ state = "nok" =>
        IF calls[Len(calls)] = "label"
          THEN balance = MaxBalance + 1
          ELSE balance \in 0..MaxBalance

\* three groups are open while the scan goes on
C17_Witness ==
  /\ state = "label"
  /\ balance = MaxBalance
  /\ Fed = 4

C17_WitnessOk == state = "ok" /\ balance = -1 /\ input[Fed - 1] = Letter

\* C18: a step of label that reads an opening bracket with MaxBalance
\* groups open calls nok with it and emits nothing; with fewer open it only
\* consumes the bracket, balance goes up by one and the scan stays in label.
C18_OpeningBracketInLabel ==
  [][(state = "label" /\ input[pos] = openingSquareBracket) =>
       IF balance = MaxBalance
         THEN /\ state' = "nok"
              /\ nokArgs' = <<pos>>
              /\ events' = events
         ELSE /\ balance < MaxBalance
              /\ state' = "label"
              /\ balance' = balance + 1
              /\ events' = Append(events, ConsumeOf(pos))
              /\ nokArgs' = nokArgs]_vars

C18_Witness ==
  /\ state = "nok"
  /\ calls = <<"label">>
  /\ nokArgs = <<Fed>>
  /\ Len(Consumed) = Fed - 1
  /\ Fed = MaxBalance + 2

C18_WitnessConsumed ==
  /\ state = "label"
  /\ calls = <<"label">>
  /\ input[Fed] = openingSquareBracket
  /\ balance = MaxBalance

\* the number of escaped units among the first n units
EscapedUpTo(n) == Cardinality({k \in 1..n : EscapedAt(input, k)})

\* C19: size is the number of escaped units consumed so far; a step changes
\* it only by adding one, and only a step of labelEscape that consumes an
\* escapable follower does.
C19_SizeCountsEscapes ==
  /\ [](size = EscapedUpTo(Handled))
  /\ [][IF state = "labelEscape" /\ input[pos] \in EscapableUnits
          THEN size' = size + 1 /\ events' = Append(events, ConsumeOf(pos))
          ELSE size' = size]_vars

\* an escape after a lone backslash, an ordinary unit and an unescaped
\* bracket
C19_Witness ==
  /\ size = 1
  /\ state = "label"
  /\ EscapedAt(input, Fed)
  /\ \E k \in 2..(Fed - 2) : input[k] = backSlash /\ input[k + 1] = Letter
  /\ \E k \in 2..(Fed - 2) : input[k] = openingSquareBracket /\ balance = 1

\* C20: every chunkText span exited has a consumed unit in it: the event
\* before its exit is not its enter.
C20_NoEmptyChunk ==
  \A k \in 2..Len(events) :
    events[k] = [op |-> "exit", type |-> chunkTextType, idx |-> 0]
      => events[k - 1].op = "consume"

====
